---- MODULE Spec2Model ----
(***************************************************************************)
(* A model of the date bone of the ViUR server (bones/dateBone.py): the    *)
(* four lifecycle operations fromClient, serialize, unserialize and        *)
(* buildDBFilter, the localisation helpers, and the value cache and        *)
(* storage entity they act on.                                             *)
(*                                                                         *)
(* Python strings are sequences of one-character strings, so that          *)
(* str.replace, str.isdigit, str.count, str.split, int() and strptime are  *)
(* computed character by character as the interpreter computes them.       *)
(* The module is written for Python 2 (ExtendedDateTime.strftime encodes   *)
(* its format, line 45), so the Python 2 rules apply: a time of midnight   *)
(* is false, strftime rejects years before 1900.                           *)
(*                                                                         *)
(* Around the bone: the request context of the router (core/router.py),    *)
(* the email bone (bones/emailBone.py), the mapping of modules, the        *)
(* translations (src/viur/core/i18n.py), the JSON helpers                  *)
(* (src/viur/core/utils/json.py) and the start of the instances            *)
(* (core/app.py); these are Python 3.                                      *)
(***************************************************************************)
EXTENDS Integers, Sequences, FiniteSets, TLC

(***************************************************************************)
(* Python values                                                           *)
(***************************************************************************)
None == [kind |-> "None"]
PyStr(s) == [kind |-> "str", s |-> s]
PyInt(n) == [kind |-> "int", v |-> n]
\* a float with one decimal place: tenths / 10
PyFloat(tenths) == [kind |-> "float", tenths |-> tenths]
\* a list and a dict
PyList(items) == [kind |-> "list", items |-> items]
PyDict(items) == [kind |-> "dict", items |-> items]
\* datetime.time
Time(h, mi, s) == [kind |-> "time", hour |-> h, minute |-> mi, second |-> s]
\* datetime.datetime (cls "datetime") and its subclass ExtendedDateTime
DateTime(cls, y, mo, d, h, mi, s, us, tz) ==
    [kind |-> "datetime", cls |-> cls, year |-> y, month |-> mo, day |-> d,
     hour |-> h, minute |-> mi, second |-> s, microsecond |-> us, tzinfo |-> tz]

\* the truth value: None is false, and so is a time of midnight under
\* Python 2
Truthy(value) ==
    CASE value.kind = "None" -> FALSE
      [] value.kind = "time" -> ~(value.hour = 0 /\ value.minute = 0 /\ value.second = 0)
      [] value.kind = "int" -> value.v # 0
      [] value.kind = "float" -> value.tenths # 0
      [] value.kind = "str" -> value.s # <<>>
      [] value.kind = "list" -> value.items # <<>>
      [] OTHER -> TRUE

Digits == {"0", "1", "2", "3", "4", "5", "6", "7", "8", "9"}

DigitVal(c) ==
    CASE c = "0" -> 0 [] c = "1" -> 1 [] c = "2" -> 2 [] c = "3" -> 3
      [] c = "4" -> 4 [] c = "5" -> 5 [] c = "6" -> 6 [] c = "7" -> 7
      [] c = "8" -> 8 [] c = "9" -> 9

DigitChar(n) ==
    CASE n = 0 -> "0" [] n = 1 -> "1" [] n = 2 -> "2" [] n = 3 -> "3"
      [] n = 4 -> "4" [] n = 5 -> "5" [] n = 6 -> "6" [] n = 7 -> "7"
      [] n = 8 -> "8" [] n = 9 -> "9"

\* str.lower on the letters the inputs use
LowerChar(c) ==
    CASE c = "N" -> "n" [] c = "O" -> "o" [] c = "W" -> "w" [] OTHER -> c

Lower(s) == [i \in 1..Len(s) |-> LowerChar(s[i])]

\* s.isdigit(): non-empty and all characters are digits
IsDigit(s) == Len(s) > 0 /\ \A i \in 1..Len(s) : s[i] \in Digits

\* s.count(c)
Count(s, c) == Cardinality({i \in 1..Len(s) : s[i] = c})

\* c in s
Contains(s, c) == \E i \in 1..Len(s) : s[i] = c

\* s.replace(c, "", 1): drop the first occurrence of c
ReplaceFirst(s, c) ==
    IF Contains(s, c)
    THEN LET i == CHOOSE j \in 1..Len(s) :
                      s[j] = c /\ \A k \in 1..(j - 1) : s[k] # c
         IN SubSeq(s, 1, i - 1) \o SubSeq(s, i + 1, Len(s))
    ELSE s

\* s.startswith(p)
StartsWith(s, p) == Len(s) >= Len(p) /\ SubSeq(s, 1, Len(p)) = p

\* s.split(c)
RECURSIVE Split(_, _)
Split(s, c) ==
    IF ~Contains(s, c) THEN <<s>>
    ELSE LET i == CHOOSE j \in 1..Len(s) :
                      s[j] = c /\ \A k \in 1..(j - 1) : s[k] # c
         IN <<SubSeq(s, 1, i - 1)>> \o Split(SubSeq(s, i + 1, Len(s)), c)

\* s.strip() for the blank
RECURSIVE Strip(_)
Strip(s) ==
    IF Len(s) > 0 /\ s[1] = " " THEN Strip(Tail(s))
    ELSE IF Len(s) > 0 /\ s[Len(s)] = " " THEN Strip(SubSeq(s, 1, Len(s) - 1))
    ELSE s

\* the value of a digit string
RECURSIVE DigitsValue(_)
DigitsValue(s) ==
    IF Len(s) = 0 THEN 0
    ELSE DigitsValue(SubSeq(s, 1, Len(s) - 1)) * 10 + DigitVal(s[Len(s)])

\* the decimal digits of n >= 0
RECURSIVE NatStr(_)
NatStr(n) == IF n < 10 THEN <<DigitChar(n)>> ELSE NatStr(n \div 10) \o <<DigitChar(n % 10)>>

IntStr(n) == IF n < 0 THEN <<"-">> \o NatStr(0 - n) ELSE NatStr(n)

\* int(s) for a string: blanks stripped, one optional sign, then digits only;
\* anything else is a ValueError (ok = FALSE)
IntOfString(s) ==
    LET t == Strip(s)
        signed == Len(t) > 0 /\ t[1] \in {"-", "+"}
        body == IF signed THEN Tail(t) ELSE t
    IN IF IsDigit(body)
       THEN [ok |-> TRUE,
             v |-> IF signed /\ t[1] = "-" THEN 0 - DigitsValue(body) ELSE DigitsValue(body)]
       ELSE [ok |-> FALSE, v |-> 0]

\* a / b rounded towards zero, as int() rounds a float
TruncDiv(a, b) == IF a >= 0 THEN a \div b ELSE 0 - ((0 - a) \div b)

\* int() of the float tenths / 10
Trunc(tenths) == TruncDiv(tenths, 10)

\* str(value)
Str(value) ==
    CASE value.kind = "str" -> value.s
      [] value.kind = "None" -> <<"N", "o", "n", "e">>
      [] value.kind = "int" -> IntStr(value.v)
      [] value.kind = "float" ->
            (IF value.tenths < 0 THEN <<"-">> ELSE <<>>)
            \o NatStr((IF value.tenths < 0 THEN 0 - value.tenths ELSE value.tenths) \div 10)
            \o <<".">>
            \o NatStr((IF value.tenths < 0 THEN 0 - value.tenths ELSE value.tenths) % 10)

\* int(value)
Int_(value) ==
    CASE value.kind = "str" -> IntOfString(value.s)
      [] value.kind = "int" -> [ok |-> TRUE, v |-> value.v]
      [] value.kind = "float" -> [ok |-> TRUE, v |-> Trunc(value.tenths)]
      [] OTHER -> [ok |-> FALSE, v |-> 0]


(***************************************************************************)
(* The calendar of datetime: proleptic Gregorian, days counted from        *)
(* 1970-01-01.                                                             *)
(***************************************************************************)
IsLeap(y) == (y % 4 = 0 /\ y % 100 # 0) \/ y % 400 = 0

DaysInMonth(y, m) ==
    CASE m \in {1, 3, 5, 7, 8, 10, 12} -> 31
      [] m \in {4, 6, 9, 11} -> 30
      [] OTHER -> IF IsLeap(y) THEN 29 ELSE 28

DaysFromCivil(y, m, d) ==
    LET yy == IF m <= 2 THEN y - 1 ELSE y
        era == yy \div 400
        yoe == yy - era * 400
        mp == IF m > 2 THEN m - 3 ELSE m + 9
        doy == (153 * mp + 2) \div 5 + d - 1
        doe == yoe * 365 + yoe \div 4 - yoe \div 100 + doy
    IN era * 146097 + doe - 719468

CivilFromDays(days) ==
    LET z == days + 719468
        era == z \div 146097
        doe == z - era * 146097
        yoe == (doe - doe \div 1460 + doe \div 36524 - doe \div 146096) \div 365
        doy == doe - (365 * yoe + yoe \div 4 - yoe \div 100)
        mp == (5 * doy + 2) \div 153
        d == doy - (153 * mp + 2) \div 5 + 1
        m == IF mp < 10 THEN mp + 3 ELSE mp - 9
        y == yoe + era * 400 + (IF m <= 2 THEN 1 ELSE 0)
    IN [year |-> y, month |-> m, day |-> d]

\* dt on the date c at second rest of the day
OnDate(dt, c, rest) ==
    [dt EXCEPT !.year = c.year, !.month = c.month, !.day = c.day,
               !.hour = rest \div 3600, !.minute = (rest % 3600) \div 60,
               !.second = rest % 60]

\* dt moved to second sod of its day, sod below 0 or above a day as well
AtSecond(dt, sod) ==
    OnDate(dt, CivilFromDays(DaysFromCivil(dt.year, dt.month, dt.day) + sod \div 86400),
           sod % 86400)

\* the datetime n seconds after dt (n may be negative), as dt + timedelta(seconds=n)
AddSeconds(dt, n) == AtSecond(dt, dt.hour * 3600 + dt.minute * 60 + dt.second + n)

\* cls.fromtimestamp(secs + us / 10^6); the server's local time is UTC
FromTimestamp(cls, secs, us) ==
    AddSeconds(DateTime(cls, 1970, 1, 1, 0, 0, 0, us, "naive"), secs)

(***************************************************************************)
(* strptime: the format is a sequence of directives ("Y", "m", "d", "H",   *)
(* "M", "S"), blanks (matched by one or more blanks) and literal           *)
(* characters; the whole string has to match.                              *)
(***************************************************************************)
FmtIsoDate == <<"Y", "-", "m", "-", "d">>
FmtUsDate == <<"m", "/", "d", "/", "Y">>
FmtEuDate == <<"d", ".", "m", ".", "Y">>
FmtSeconds == <<" ", "H", ":", "M", ":", "S">>
FmtMinutes == <<" ", "H", ":", "M">>

Directives == {"Y", "m", "d", "H", "M", "S"}

\* the number of characters from position i of s on that are in chars
RECURSIVE RunLength(_, _, _)
RunLength(s, i, chars) ==
    IF i <= Len(s) /\ s[i] \in chars THEN 1 + RunLength(s, i + 1, chars) ELSE 0

\* the value of the n digits at position i of s, n at most four
RunValue(s, i, n) == IF n \in 1..4 THEN DigitsValue(SubSeq(s, i, i + n - 1)) ELSE 0

\* the smallest and the largest value a directive accepts
DirectiveLow(dir) == IF dir \in {"m", "d"} THEN 1 ELSE 0
DirectiveHigh(dir) ==
    CASE dir = "m" -> 12 [] dir = "d" -> 31 [] dir = "H" -> 23
      [] dir = "M" -> 59 [] dir = "S" -> 61 [] OTHER -> 9999

\* a blank and one digit 1..9 at position i: the fifth form of %d
BlankDigit(s, i) ==
    /\ i + 1 <= Len(s) /\ s[i] = " " /\ s[i + 1] \in (Digits \ {"0"})
    /\ (i + 2 > Len(s) \/ s[i + 2] \notin Digits)

\* what directive dir matches at position i of s, where n digits of value v
\* stand.  Every directive is followed by a literal character or by the end
\* of the string, so it has to match the whole run of digits: four digits
\* for %Y, else a single digit or two digits within the directive's range.
\* width 0: no match
DirectiveOfRun(s, i, dir, n, v) ==
    IF dir = "Y" THEN [width |-> IF n = 4 THEN 4 ELSE 0, value |-> v]
    ELSE IF n = 1 /\ v >= DirectiveLow(dir) THEN [width |-> 1, value |-> v]
    ELSE IF n = 2 /\ v >= DirectiveLow(dir) /\ v <= DirectiveHigh(dir)
    THEN [width |-> 2, value |-> v]
    ELSE IF dir = "d" /\ n = 0 /\ BlankDigit(s, i)
    THEN [width |-> 2, value |-> DigitVal(s[i + 1])]
    ELSE [width |-> 0, value |-> 0]

DirectiveRun(s, i, dir, n) == DirectiveOfRun(s, i, dir, n, RunValue(s, i, n))

DirectiveMatch(s, i, dir) == DirectiveRun(s, i, dir, RunLength(s, i, Digits))

\* s from position i matched against fmt from position k: whether it matches
\* to the end of s, and the fields read
RECURSIVE MatchFrom(_, _, _, _, _)

\* the directive fmt[k] matched w
AfterDirective(s, i, fmt, k, acc, w) ==
    IF w.width = 0 THEN [ok |-> FALSE, fields |-> acc]
    ELSE MatchFrom(s, i + w.width, fmt, k + 1, [acc EXCEPT ![fmt[k]] = w.value])

\* the blank fmt[k] matched n blanks
AfterBlanks(s, i, fmt, k, acc, n) ==
    IF n = 0 THEN [ok |-> FALSE, fields |-> acc]
    ELSE MatchFrom(s, i + n, fmt, k + 1, acc)

MatchFrom(s, i, fmt, k, acc) ==
    IF k > Len(fmt) THEN [ok |-> i = Len(s) + 1, fields |-> acc]
    ELSE IF fmt[k] \in Directives
    THEN AfterDirective(s, i, fmt, k, acc, DirectiveMatch(s, i, fmt[k]))
    ELSE IF fmt[k] = " "
    THEN AfterBlanks(s, i, fmt, k, acc, RunLength(s, i, {" "}))
    ELSE IF i <= Len(s) /\ s[i] = fmt[k] THEN MatchFrom(s, i + 1, fmt, k + 1, acc)
    ELSE [ok |-> FALSE, fields |-> acc]

\* the fields strptime assumes for the directives a format lacks
NoFields == [f \in Directives |-> IF f \in {"m", "d"} THEN 1 ELSE IF f = "Y" THEN 1900 ELSE 0]

\* the datetime of a match m; a date that does not exist and a second above
\* 59 are a ValueError (ok = FALSE)
DateTimeOfMatch(cls, m) ==
    IF /\ m.ok
       /\ m.fields["Y"] \in 1..9999
       /\ m.fields["d"] <= DaysInMonth(m.fields["Y"], m.fields["m"])
       /\ m.fields["S"] <= 59
    THEN [ok |-> TRUE,
          v |-> DateTime(cls, m.fields["Y"], m.fields["m"], m.fields["d"],
                         m.fields["H"], m.fields["M"], m.fields["S"], 0, "naive")]
    ELSE [ok |-> FALSE, v |-> None]

\* cls.strptime(s, fmt)
Strptime(cls, s, fmt) == DateTimeOfMatch(cls, MatchFrom(s, 1, fmt, 1, NoFields))

\* str padded with zeros to w characters
RECURSIVE PadStr(_, _)
PadStr(str, w) == IF Len(str) >= w THEN str ELSE PadStr(<<"0">> \o str, w)

\* n >= 0 in at least w decimal digits
Pad(n, w) == PadStr(NatStr(n), w)

\* "%d.%m.%Y %H:%M:%S" of the fields
FormatEu(y, m, d, h, mi, s) ==
    Pad(d, 2) \o <<".">> \o Pad(m, 2) \o <<".">> \o Pad(y, 4) \o <<" ">>
    \o Pad(h, 2) \o <<":">> \o Pad(mi, 2) \o <<":">> \o Pad(s, 2)

\* value.strftime("%d.%m.%Y %H:%M:%S") for a datetime or a time; a time is
\* formatted on 1900-01-01; Python 2 raises ValueError for a year before 1900
StrftimeEu(value) ==
    IF value.kind = "time"
    THEN [ok |-> TRUE, s |-> FormatEu(1900, 1, 1, value.hour, value.minute, value.second)]
    ELSE IF value.year < 1900 THEN [ok |-> FALSE, s |-> <<>>]
    ELSE [ok |-> TRUE,
          s |-> FormatEu(value.year, value.month, value.day,
                         value.hour, value.minute, value.second)]

(***************************************************************************)
(* dateBone.fromClient                                                     *)
(***************************************************************************)
\* how a branch of fromClient ends: it assigned value to valuesCache[name] and
\* returned None; it returned ret ("False" or the error message) without
\* assigning; or it raised an exception
Stored(v) == [stored |-> TRUE, value |-> v, ret |-> "None", raised |-> "none"]
Failed(ret) == [stored |-> FALSE, value |-> None, ret |-> ret, raised |-> "none"]
Raised(exc) == [stored |-> FALSE, value |-> None, ret |-> "none", raised |-> exc]

InvalidValue == "Invalid value entered"

\* line 106: str(value).replace("-", "", 1).replace(".", "", 1).isdigit()
LooksNumeric(value) == IsDigit(ReplaceFirst(ReplaceFirst(Str(value), "-"), "."))

MinTimestamp == -1073741824
MaxTimestamp == 2147483646


\* a range check that would let one more second through
InTimestampRangeWider(n) == ~(n < MinTimestamp \/ n > MaxTimestamp + 1)

\* line 107, negated: the timestamps that are not rejected
InTimestampRange(n) == ~(n < MinTimestamp \/ n > MaxTimestamp)

\* float(value) as whole seconds and microseconds
FloatSeconds(value) ==
    IF value.kind = "float"
    THEN [secs |-> value.tenths \div 10, us |-> (value.tenths % 10) * 100000]
    ELSE [secs |-> Int_(value).v, us |-> 0]

\* line 109: ExtendedDateTime.fromtimestamp(f)
StoredTimestamp(f) == Stored(FromTimestamp("ExtendedDateTime", f.secs, f.us))

\* lines 107-110, n being int(value): a ValueError of int() leaves fromClient
TimestampOf(value, n) ==
    IF ~n.ok THEN Raised("ValueError")
    ELSE IF ~InTimestampRange(n.v) THEN Failed(InvalidValue)
    ELSE StoredTimestamp(FloatSeconds(value))

TimestampBranch(value) == TimestampOf(value, Int_(value))

\* datetime.time(hour, minute, second): ValueError outside the ranges
MakeTime(h, mi, s) ==
    IF h \in 0..23 /\ mi \in 0..59 /\ s \in 0..59
    THEN [ok |-> TRUE, v |-> Time(h, mi, s)]
    ELSE [ok |-> FALSE, v |-> None]

\* [int(x.strip()) for x in parts]
IntsOf(parts) == [i \in 1..Len(parts) |-> IntOfString(parts[i])]

\* lines 115-116, 119-120, 122-123 after time(...): stored, or the ValueError
\* that line 124 turns into the error message
StoredTime(t) == IF t.ok THEN Stored(t.v) ELSE Failed(InvalidValue)

\* lines 114-115 (n = 3) and 118-119 (n = 2): the parts are unpacked into n names
TimeOfParts(ints, n) ==
    IF (\A i \in 1..Len(ints) : ints[i].ok) /\ Len(ints) = n
    THEN StoredTime(MakeTime(ints[1].v, ints[2].v, IF n = 3 THEN ints[3].v ELSE 0))
    ELSE Failed(InvalidValue)

\* line 122: time(second=int(value))
TimeOfSeconds(n) == IF n.ok THEN StoredTime(MakeTime(0, 0, n.v)) ELSE Failed(InvalidValue)

\* lines 112-126, s being str(value) and colons its number of ":"
TimeOfString(value, s, colons) ==
    IF colons > 1 THEN TimeOfParts(IntsOf(Split(s, ":")), 3)
    ELSE IF colons > 0 THEN TimeOfParts(IntsOf(Split(s, ":")), 2)
    ELSE IF IsDigit(ReplaceFirst(s, "-")) THEN TimeOfSeconds(Int_(value))
    ELSE Failed("False")

TimeOnlyBranch(value) == TimeOfString(value, Str(value), Count(Str(value), ":"))

\* a now that would ignore every offset
NowWithoutOffset(clock, long, off) == Stored(clock)

\* lines 129-134: a malformed offset is ignored
NowWithOffset(clock, long, off) ==
    Stored(IF long /\ off.ok THEN AddSeconds(clock, off.v) ELSE clock)

NowOfString(s, clock) == NowWithOffset(clock, Len(s) > 4, IntOfString(SubSeq(s, 4, Len(s))))

\* lines 128-135
NowBranch(value, clock) == NowOfString(Str(value), clock)

\* a choice that would know the European format only
DateFormatEuropean(s) == FmtEuDate

\* the date format chosen by the separator, lines 140-144
DateFormat(s) ==
    IF Contains(s, "-") THEN FmtIsoDate
    ELSE IF Contains(s, "/") THEN FmtUsDate
    ELSE FmtEuDate

\* lines 139-152: the format with seconds, and after its failure with minutes
FirstOk(a, b) == IF a.ok THEN a ELSE b

\* lines 160-162
StoredParse(p) == IF p.ok THEN Stored(p.v) ELSE Failed(InvalidValue)

\* lines 138-159 for a string
DateOfString(s, fmt) ==
    StoredParse(IF Contains(s, " ")
                THEN FirstOk(Strptime("ExtendedDateTime", s, fmt \o FmtSeconds),
                             Strptime("ExtendedDateTime", s, fmt \o FmtMinutes))
                ELSE Strptime("ExtendedDateTime", s, fmt))

\* lines 137-162: value is a string here or None; " " in None is a TypeError
\* that the outer try catches
DateBranch(value) ==
    IF value.kind # "str" THEN Failed(InvalidValue)
    ELSE DateOfString(value.s, DateFormat(value.s))


\* a fromClient that would leave the old value in place until it stores
ResetValueLater(previous) == previous

\* line 105: valuesCache[name] = None, before anything is parsed
ResetValue(previous) == None

\* lines 101-104
LookUp(data, name) == IF name \in DOMAIN data THEN data[name] ELSE None

\* lines 106-163: the branch taken for value
Parse(bone, value, clock) ==
    IF LooksNumeric(value) THEN TimestampBranch(value)
    ELSE IF ~bone.date /\ bone.time THEN TimeOnlyBranch(value)
    ELSE IF StartsWith(Lower(Str(value)), <<"n", "o", "w">>) THEN NowBranch(value, clock)
    ELSE DateBranch(value)

\* valuesCache[name] after the call and what the caller gets
Outcome(out, previous) ==
    [value |-> IF out.stored THEN out.value ELSE ResetValue(previous),
     ret |-> out.ret, raised |-> out.raised]

\* lines 101-163; previous is valuesCache[name] before the call
fromClient(bone, previous, name, data, clock) ==
    Outcome(Parse(bone, LookUp(data, name), clock), previous)

(***************************************************************************)
(* Localisation: guessTimeZone, readLocalized, setLocalized.  A request    *)
(* environment env holds whether there is a current request, the           *)
(* X-Appengine-Country header ("absent" without it), whether pytz could be *)
(* imported, and requestData, the request's cache of the guessed zone.     *)
(* The zones have a fixed offset here: no daylight-saving transition.      *)
(***************************************************************************)
UpperCode(c) == CASE c = "us" -> "US" [] c = "de" -> "DE" [] OTHER -> c
LowerCode(c) == CASE c = "US" -> "us" [] c = "DE" -> "de" [] c = "RU" -> "ru" [] OTHER -> c

\* pytz.country_timezones: its keys are upper-cased, an unknown country is a KeyError
CountryTimezones(c) ==
    CASE UpperCode(c) = "DE" -> <<"Europe/Berlin">>
      [] UpperCode(c) = "US" -> <<"America/New_York", "America/Chicago">>
      [] UpperCode(c) = "RU" -> <<"Europe/Moscow", "Asia/Omsk">>
      [] OTHER -> <<>>

\* seconds east of UTC
UtcOffset(zone) ==
    CASE zone = "Europe/Berlin" -> 3600
      [] zone = "EST" -> 0 - 18000
      [] OTHER -> 0

\* a choice that would know the lower-case "us" only
ZoneOfLowerCase(country, tzList) ==
    IF Len(tzList) = 1 THEN tzList[1]
    ELSE IF country = "us" THEN "EST"
    ELSE "UTC"

\* lines 183-188: the zone of a country with the zones tzList
ZoneOf(country, tzList) ==
    IF Len(tzList) = 1 THEN tzList[1]
    ELSE IF LowerCode(country) = "us" THEN "EST"
    ELSE "UTC"

\* lines 180-190, tzList being pytz.country_timezones[country]
GuessFrom(env, tzList) ==
    IF tzList = <<>> THEN [zone |-> "UTC", requestData |-> env.requestData]
    ELSE [zone |-> ZoneOf(env.country, tzList),
          requestData |-> ZoneOf(env.country, tzList)]

\* lines 165-190: the zone returned and requestData afterwards
guessTimeZone(env) ==
    IF ~env.hasRequest THEN [zone |-> "UTC", requestData |-> env.requestData]
    ELSE IF env.requestData # "absent"
    THEN [zone |-> env.requestData, requestData |-> env.requestData]
    ELSE IF env.country = "absent" \/ ~env.pytz
    THEN [zone |-> "UTC", requestData |-> env.requestData]
    ELSE GuessFrom(env, CountryTimezones(env.country))

\* lines 207-210: the wall-clock value in zone as UTC
LocalToUtc(value, zone) ==
    [AddSeconds(value, 0 - UtcOffset(zone)) EXCEPT !.cls = "datetime", !.tzinfo = "UTC"]

\* lines 198-211
ReadIn(value, zone, env) ==
    IF zone # "UTC" /\ env.pytz THEN LocalToUtc(value, zone) ELSE value

\* lines 192-211: "if 1 or ..." returns the value as it came
readLocalized(bone, value, env) ==
    IF TRUE \/ ~bone.localize \/ ~Truthy(value) \/ value.kind # "datetime" THEN value
    ELSE ReadIn(value, guessTimeZone(env).zone, env)

\* line 246: the UTC value as the wall clock of zone
UtcToLocal(value, zone) ==
    [AddSeconds(value, UtcOffset(zone)) EXCEPT !.tzinfo = zone]

\* lines 242-247, g being guessTimeZone()
SetIn(value, g, env) ==
    [value |-> IF g.zone # "UTC" /\ env.pytz THEN UtcToLocal(value, g.zone) ELSE value,
     requestData |-> g.requestData]

\* lines 237-247: valuesCache[name] and requestData afterwards
setLocalized(bone, value, env) ==
    IF ~bone.localize \/ value.kind # "datetime" \/ value.cls # "ExtendedDateTime"
    THEN [value |-> value, requestData |-> env.requestData]
    ELSE SetIn(value, guessTimeZone(env), env)

(***************************************************************************)
(* dateBone.__init__ and dateBone.performMagic                             *)
(***************************************************************************)
\* a constructor that would check for an empty bone only
dateBoneUnchecked(creationMagic, updateMagic, date, time, localize) ==
    IF ~(date \/ time) THEN [bone |-> None, raised |-> "ValueError"]
    ELSE [bone |-> [date |-> date, time |-> time, localize |-> localize,
                    languages |-> <<>>, multiple |-> FALSE,
                    creationMagic |-> creationMagic, updateMagic |-> updateMagic],
          raised |-> "none"]

\* lines 55-84: the bone, or the ValueError of line 79 or 81
dateBone(creationMagic, updateMagic, date, time, localize) ==
    IF ~(date \/ time) THEN [bone |-> None, raised |-> "ValueError"]
    ELSE IF localize /\ ~(date /\ time) THEN [bone |-> None, raised |-> "ValueError"]
    ELSE [bone |-> [date |-> date, time |-> time, localize |-> localize,
                    languages |-> <<>>, multiple |-> FALSE,
                    creationMagic |-> creationMagic, updateMagic |-> updateMagic],
          raised |-> "none"]

\* a magic that would not ask whether the entity is added
performMagicOnEverySave(b, previous, isAdd, clock, env) ==
    IF b.creationMagic \/ b.updateMagic THEN setLocalized(b, clock, env)
    ELSE [value |-> previous, requestData |-> env.requestData]

\* lines 255-257: valuesCache[name] and requestData afterwards; clock is
\* ExtendedDateTime.now()
performMagic(b, previous, isAdd, clock, env) ==
    IF (b.creationMagic /\ isAdd) \/ b.updateMagic THEN setLocalized(b, clock, env)
    ELSE [value |-> previous, requestData |-> env.requestData]

(***************************************************************************)
(* dateBone.serialize and dateBone.unserialize                             *)
(***************************************************************************)
\* cls.strptime(f, "%d.%m.%Y %H:%M:%S"), f being the result of strftime
ReparseString(cls, f) ==
    IF f.ok THEN Strptime(cls, f.s, FmtEuDate \o FmtSeconds)
    ELSE [ok |-> FALSE, v |-> None]

\* cls.strptime(value.strftime("%d.%m.%Y %H:%M:%S"), "%d.%m.%Y %H:%M:%S")
Reparse(cls, value) == ReparseString(cls, StrftimeEu(value))

\* line 216 after the strptime p, and line 217
SerializedOf(bone, p, env) ==
    IF ~p.ok THEN [stored |-> None, raised |-> "ValueError"]
    ELSE [stored |-> readLocalized(bone, p.v, env), raised |-> "none"]

\* lines 213-218: what entity.set receives, or the exception; a number that
\* a failed unserialize left in the cache has no strftime
serialize(bone, value, env) ==
    IF ~Truthy(value) THEN [stored |-> value, raised |-> "none"]
    ELSE IF value.kind \notin {"datetime", "time"}
    THEN [stored |-> None, raised |-> "AttributeError"]
    ELSE SerializedOf(bone, Reparse("datetime", value), env)

Absent == [kind |-> "absent"]

\* line 229: time(hour=int(v / 60), minute=int(v % 60)); for an int the
\* division of Python 2 rounds down, for a float int() rounds towards zero
MinuteOfDay(stored) ==
    IF stored.kind = "int"
    THEN MakeTime(stored.v \div 60, stored.v % 60, 0)
    ELSE MakeTime(TruncDiv(stored.tenths, 600), (stored.tenths % 600) \div 10, 0)

\* how unserialize ends, valuesCache[name] holding v
Loaded(v, env) == [value |-> v, requestData |-> env.requestData, raised |-> "none"]
LoadFailed(v, env) == [value |-> v, requestData |-> env.requestData, raised |-> "ValueError"]

\* lines 227 and 231 after setLocalized
LoadedLocalized(r) == [value |-> r.value, requestData |-> r.requestData, raised |-> "none"]

\* line 229 after time(...): its ValueError leaves the stored number in the cache
LoadedTime(t, stored, env) == IF t.ok THEN Loaded(t.v, env) ELSE LoadFailed(stored, env)

\* line 231 after the strptime p
LoadedDate(bone, p, stored, env) ==
    IF p.ok THEN LoadedLocalized(setLocalized(bone, p.v, env))
    ELSE LoadFailed(stored, env)

\* line 227
LoadedTimestamp(bone, f, env) ==
    LoadedLocalized(setLocalized(bone, FromTimestamp("ExtendedDateTime", f.secs, f.us), env))

\* lines 220-235: valuesCache[name] and requestData afterwards, or the exception
unserialize(bone, stored, env) ==
    IF stored.kind = "absent" THEN Loaded(None, env)
    ELSE IF Truthy(stored) /\ stored.kind \in {"int", "float"}
    THEN IF bone.date THEN LoadedTimestamp(bone, FloatSeconds(stored), env)
         ELSE LoadedTime(MinuteOfDay(stored), stored, env)
    ELSE IF stored.kind = "datetime"
    THEN LoadedDate(bone, Reparse("ExtendedDateTime", stored), stored, env)
    ELSE Loaded(None, env)

(***************************************************************************)
(* fromClient of a bone with languages.  The code that reads name.<lang>   *)
(* is not part of bones/dateBone.py, whose fromClient reads data[name]     *)
(* alone; it is modelled as specified (component design, 4.3 and 4.4) and  *)
(* as tests/bones/test_string_bone.py exercises it, around the parser of   *)
(* the date bone.                                                          *)
(***************************************************************************)
LangKey(name, lang) == name \o <<".", lang>>

LanguageSet(b) == {b.languages[i] : i \in 1..Len(b.languages)}

\* the value of a language nothing was submitted for
EmptyValue(b) == IF b.multiple THEN PyList(<<>>) ELSE None

\* the list of the parsed items, if every item parsed
ListOf(outs) ==
    IF \A i \in 1..Len(outs) : outs[i].stored
    THEN Stored(PyList([i \in 1..Len(outs) |-> outs[i].value]))
    ELSE IF \E i \in 1..Len(outs) : outs[i].raised # "none" THEN Raised("ValueError")
    ELSE Failed(InvalidValue)

ParsedItems(b, items, clock) == [i \in 1..Len(items) |-> Parse(b, items[i], clock)]

\* one language's entry: a value, or for a multiple bone a list of values
ParseEntry(b, raw, clock) ==
    IF ~b.multiple THEN Parse(b, raw, clock)
    ELSE ListOf(ParsedItems(b, IF raw.kind = "list" THEN raw.items ELSE <<raw>>, clock))

\* the entries of the languages the request has a key for
ParsedLanguages(b, name, data, clock) ==
    [l \in {m \in LanguageSet(b) : LangKey(name, m) \in DOMAIN data} |->
        ParseEntry(b, data[LangKey(name, l)], clock)]


\* a mapping that would hold the submitted languages only
LanguageMappingSubmitted(b, outs) == PyDict([l \in DOMAIN outs |-> outs[l].value])

\* every configured language is a key: of its parsed entry, or of the empty value
LanguageMapping(b, outs) ==
    PyDict([l \in LanguageSet(b) |-> IF l \in DOMAIN outs THEN outs[l].value
                                     ELSE EmptyValue(b)])

LanguagesOutcome(b, outs) ==
    IF DOMAIN outs = {}
    THEN [value |-> None, ret |-> "No value entered", raised |-> "none"]
    ELSE IF \E l \in DOMAIN outs : outs[l].raised # "none"
    THEN [value |-> None, ret |-> "none", raised |-> "ValueError"]
    ELSE IF \E l \in DOMAIN outs : ~outs[l].stored
    THEN [value |-> None, ret |-> InvalidValue, raised |-> "none"]
    ELSE [value |-> LanguageMapping(b, outs), ret |-> "None", raised |-> "none"]

fromClientLanguages(b, name, data, clock) ==
    LanguagesOutcome(b, ParsedLanguages(b, name, data, clock))

(***************************************************************************)
(* DefaultRender.renderSingleBoneValue for a date bone                     *)
(* (core/render/xml/default.py, lines 183-189): the value is formatted as  *)
(* "%d.%m.%Y %H:%M:%S", "%d.%m.%Y" or "%H:%M:%S", whatever was submitted;  *)
(* a false value is rendered as None.                                      *)
(***************************************************************************)
\* a renderer that would leave the time out
RenderedDateOnly(b, f) ==
    IF ~f.ok THEN [res |-> None, raised |-> "ValueError"]
    ELSE [res |-> PyStr(SubSeq(f.s, 1, 10)), raised |-> "none"]

\* lines 185-189, f being value.strftime("%d.%m.%Y %H:%M:%S")
RenderedDate(b, f) ==
    IF ~f.ok THEN [res |-> None, raised |-> "ValueError"]
    ELSE [res |-> PyStr(IF b.date /\ b.time THEN f.s
                        ELSE IF b.date THEN SubSeq(f.s, 1, 10)
                        ELSE SubSeq(f.s, 12, 19)),
          raised |-> "none"]

renderSingleBoneValue(b, value) ==
    IF Truthy(value) THEN RenderedDate(b, StrftimeEu(value))
    ELSE [res |-> None, raised |-> "none"]

(***************************************************************************)
(* dateBone.buildDBFilter                                                  *)
(***************************************************************************)
\* field names and request keys are sequences of name parts, so that
\* "createdby" starts with "created" as it does in Python
Created == <<"created">>
CreatedBy == <<"created", "by">>
CreatedGt == <<"created", "$gt">>
Other == <<"other">>

\* line 86: fromClient(self, valuesCache, name, data) takes three arguments
FromClientParameters == 3

\* line 251: self.fromClient(key, rawFilter)
FilterCallArguments(key, rawFilter) == <<key, rawFilter>>

\* line 250: the keys of rawFilter that start with name
FilterKeys(name, rawFilter) == {k \in DOMAIN rawFilter : StartsWith(k, name)}

\* lines 249-253: the query afterwards, or the TypeError of the call of line
\* 251, which passes two arguments where three are required
buildDBFilter(bone, name, dbFilter, rawFilter) ==
    IF \E key \in FilterKeys(name, rawFilter) :
           Len(FilterCallArguments(key, rawFilter)) # FromClientParameters
    THEN [dbFilter |-> dbFilter, raised |-> "TypeError"]
    ELSE [dbFilter |-> dbFilter, raised |-> "none"]

(***************************************************************************)
(* The inputs                                                              *)
(***************************************************************************)
MaxLen == 2
MaxSaves == 2

Alphabet == {"5", "-", ".", ":"}

\* every string over Alphabet of at most MaxLen characters
ShortStrings == UNION {[1..n -> Alphabet] : n \in 0..MaxLen}

SampleStrings ==
    {
     <<"9", "0">>,
     <<"1", ".", "5">>,
     <<"5", "-", "3">>,
     <<"1", "4", ":", "3", "0">>,
     <<"1", "4", ":", "3", "0", ":", "1", "5">>,
     <<"0", "0", ":", "0", "0">>,
     <<"2", "5", ":", "0", "0">>,
     <<"a", "b", "c">>,
     <<"n", "o", "w">>,
     <<"n", "o", "w", "+", "3", "6", "0", "0">>,
     <<"N", "O", "W", "-", "5">>,
     <<"n", "o", "w", "+", "x">>,
     <<"n", "o", "w", "+", "5">>,
     <<"n", "o", "w", "-", "5">>,
     <<"1", ".", "1", ".", "2", "0", "2", "0", " ", "1", ":", "0", "2", ":", "0", "3">>,
     <<"0", "1", ".", "0", "1", ".", "1", "8", "0", "0", " ", "0", "0", ":", "0", "0", ":", "0", "0">>,
     <<"2", "0", "2", "0", "-", "0", "2", "-", "2", "9", " ", "1", "4", ":", "3", "0", ":", "1", "5">>,
     <<"2", "0", "2", "0", "-", "0", "2", "-", "2", "9", " ", "1", "4", ":", "3", "0">>,
     <<"2", "0", "2", "0", "-", "0", "2", "-", "2", "9">>,
     <<"0", "2", "/", "2", "9", "/", "2", "0", "2", "0", " ", "1", "4", ":", "3", "0", ":", "1", "5">>,
     <<"0", "2", "/", "2", "9", "/", "2", "0", "2", "0">>,
     <<"2", "9", ".", "0", "2", ".", "2", "0", "2", "0", " ", "1", "4", ":", "3", "0", ":", "1", "5">>,
     <<"2", "9", ".", "0", "2", ".", "2", "0", "2", "0">>,
     <<"1", ".", "1", ".", "2", "0", "2", "0">>,
     <<"3", "0", ".", "0", "2", ".", "2", "0", "2", "0">>,
     <<"0", "1", ".", "0", "1", ".", "1", "8", "0", "0">>,
     <<"0">>,
     <<"1", "6", "0", "0", "0", "0", "0", "0", "0", "0">>,
     <<"2", "1", "4", "7", "4", "8", "3", "6", "4", "6">>,
     <<"2", "1", "4", "7", "4", "8", "3", "6", "4", "7">>,
     <<"-", "1", "0", "7", "3", "7", "4", "1", "8", "2", "4">>,
     <<"-", "1", "0", "7", "3", "7", "4", "1", "8", "2", "5">>
    }

\* what a client can submit under a key: strings, numbers, None
ClientValues ==
    {PyStr(s) : s \in ShortStrings \cup SampleStrings}
    \cup {PyInt(90), PyInt(MaxTimestamp + 1), PyFloat(15), PyFloat(0 - 15), None}

\* request data: no key, the bone's key, or the key of another field
Data ==
    {<<>>} \cup {(Created :> v) : v \in ClientValues}
    \cup {(k :> PyStr(<<"2", "9", ".", "0", "2", ".", "2", "0", "2", "0">>)) :
              k \in {Created \o <<".", "de">>, CreatedBy}}

\* the request data of the requests that go on to save the value
SavedData ==
    {(Created :> PyStr(s)) : s \in
        {<<"1", "4", ":", "3", "0", ":", "1", "5">>,
         <<"0", "0", ":", "0", "0">>,
         <<"9", "0">>,
         <<"a", "b", "c">>,
         <<"n", "o", "w", "+", "3", "6", "0", "0">>,
         <<"2", "0", "2", "0", "-", "0", "2", "-", "2", "9", " ", "1", "4", ":", "3", "0", ":", "1", "5">>,
         <<"0", "2", "/", "2", "9", "/", "2", "0", "2", "0", " ", "1", "4", ":", "3", "0">>,
         <<"2", "9", ".", "0", "2", ".", "2", "0", "2", "0">>,
         <<"0", "1", ".", "0", "1", ".", "1", "8", "0", "0">>}}
    \cup {<<>>, (Created :> PyFloat(15))}

\* what a client submits for one language: nothing, a value, a list of values
LanguageValues ==
    {Absent, PyStr(<<"2", "9", ".", "0", "2", ".", "2", "0", "2", "0">>),
     PyStr(<<"1", "4", ":", "3", "0">>), PyStr(<<"9", "0">>), PyStr(<<"a", "b", "c">>),
     PyList(<<PyStr(<<"9", "0">>), PyStr(<<"5">>)>>)}

\* the request data with the keys name.en and name.de holding en and de
LanguageRequest(en, de) ==
    [k \in {Created \o <<".", l>> :
                l \in {m \in {"en", "de"} : (IF m = "en" THEN en ELSE de) # Absent}} |->
        IF k = Created \o <<".", "en">> THEN en ELSE de]

LanguageData == {LanguageRequest(en, de) : en \in LanguageValues, de \in LanguageValues}

RawFilters ==
    {<<>>}
    \cup {(k :> PyStr(<<"2", "9", ".", "0", "2", ".", "2", "0", "2", "0">>)) :
              k \in {Created, CreatedGt, CreatedBy, Other}}
    \cup {(Created :> PyStr(<<"a", "b", "c">>))}

\* what the datastore can hold under the bone's name
StoredValues ==
    {Absent, None, PyStr(<<"a", "b", "c">>),
     PyInt(0), PyInt(870), PyInt(1439), PyInt(1440), PyInt(0 - 1), PyInt(1600000000),
     PyFloat(8705), PyFloat(0),
     DateTime("datetime", 2020, 6, 15, 12, 0, 0, 0, "naive"),
     DateTime("datetime", 2020, 12, 31, 23, 30, 0, 250000, "naive"),
     DateTime("datetime", 1800, 1, 1, 0, 0, 0, 0, "naive")}

\* the bones __init__ accepts, lines 78-81: single-valued, one language
Bones ==
    {b \in [date : BOOLEAN, time : BOOLEAN, localize : BOOLEAN,
            languages : {<<>>}, multiple : {FALSE},
            creationMagic : {FALSE}, updateMagic : {FALSE}] :
        (b.date \/ b.time) /\ (b.localize => (b.date /\ b.time))}

\* the bones __init__ returns for some flags: every magic, no languages
MagicBones ==
    {dateBone(c, u, d, ti, l).bone : c \in BOOLEAN, u \in BOOLEAN, d \in BOOLEAN,
                                    ti \in BOOLEAN, l \in BOOLEAN}
    \ {None}

\* bones with languages, single-valued and multiple
LanguageBones ==
    {b \in [date : BOOLEAN, time : BOOLEAN, localize : {FALSE},
            languages : {<<"en", "de">>, <<"de">>}, multiple : BOOLEAN,
            creationMagic : {FALSE}, updateMagic : {FALSE}] :
        b.date \/ b.time}

DefaultEnv == [hasRequest |-> TRUE, country |-> "absent", pytz |-> TRUE,
               requestData |-> "absent"]

Envs ==
    {DefaultEnv,
     [DefaultEnv EXCEPT !.country = "DE"],
     [DefaultEnv EXCEPT !.country = "US"],
     [DefaultEnv EXCEPT !.country = "RU"],
     [DefaultEnv EXCEPT !.country = "ZZ"],
     [DefaultEnv EXCEPT !.country = "DE", !.pytz = FALSE],
     [DefaultEnv EXCEPT !.country = "DE", !.hasRequest = FALSE]}

\* the threads of an instance that handle requests, each with its context
Workers == {"w1", "w2"}

MaxRequests == 2

\* the X-Appengine-Country header of a request
Countries == {"absent", "DE", "US", "us", "RU", "ZZ"}

\* ExtendedDateTime.now()
Instants == {DateTime("ExtendedDateTime", 2020, 6, 15, 12, 0, 0, 250000, "naive")}

BoneNames == {Created, CreatedBy}

(***************************************************************************)
(* The state: one bone, the value cache of one skeleton, the entity it is  *)
(* stored in, the query under construction, the request environment, and   *)
(* the last call with its outcome.                                         *)
(***************************************************************************)
VARIABLES bone, env, valuesCache, entity, dbFilter, clock, last, saves, workers,
          instances

vars == <<bone, env, valuesCache, entity, dbFilter, clock, last, saves, workers,
          instances>>

\* the last call: its operation, the request data or raw filter it was given,
\* whether valuesCache[name] held a value before it, what it returned and
\* what it raised
NoCall == [op |-> "none", data |-> <<>>, hadValue |-> FALSE, ret |-> "none",
           raised |-> "none"]

\* the instances of the application
Instances == {"i1", "i2"}

\* what utils.generateRandomString can return
RandomStrings == {"k1", "k2"}

\* before any instance has started: the datastore holds neither the entity
\* viur-conf nor a translation of the key, no instance has a key in its conf
\* or the translation in its systemTranslations
NoInstanceStarted ==
    [datastore |-> [hmacKey |-> "absent", translations |-> 0],
     of |-> [i \in Instances |->
                [hmac |-> "start", conf |-> "None", task |-> "none",
                 systemTranslations |-> FALSE, wrote |-> FALSE]]]

\* a bone of bones is constructed and a request begins: requestData is
\* empty, the cache holds nothing yet.  The environment is varied for
\* localized bones only, no other bone reads it.
InitWith(bones) ==
    /\ bone \in bones
    /\ env \in Envs
    /\ (~bone.localize => env = DefaultEnv)
    /\ valuesCache =
           [n \in BoneNames |->
                IF n = Created THEN None
                ELSE DateTime("ExtendedDateTime", 2019, 1, 1, 0, 0, 0, 0, "naive")]
    /\ entity = [n \in BoneNames |-> Absent]
    /\ dbFilter = {}
    /\ clock \in Instants
    /\ last = NoCall
    /\ saves = 0
    /\ workers = [w \in Workers |->
                      [handling |-> FALSE, served |-> 0, cachedBy |-> 0,
                       env |-> [DefaultEnv EXCEPT !.hasRequest = FALSE]]]
    /\ instances = NoInstanceStarted

Init == InitWith(Bones)

InitLanguages == InitWith(LanguageBones)

\* a fromClient that would reset the whole value cache when it fails
FromClientDoneResetting(data, r) ==
    /\ valuesCache' = IF r.ret = "None"
                      THEN [valuesCache EXCEPT ![Created] = r.value]
                      ELSE [n \in BoneNames |-> None]
    /\ last' = [op |-> "fromClient", data |-> data,
                hadValue |-> valuesCache[Created] # None, ret |-> r.ret,
                raised |-> r.raised]
    /\ UNCHANGED <<instances, workers, bone, env, entity, dbFilter, clock, saves>>

\* the state after bone.fromClient(valuesCache, name, data) ended as r
FromClientDone(data, r) ==
    /\ valuesCache' = [valuesCache EXCEPT ![Created] = r.value]
    /\ last' = [op |-> "fromClient", data |-> data,
                hadValue |-> valuesCache[Created] # None, ret |-> r.ret,
                raised |-> r.raised]
    /\ UNCHANGED <<instances, workers, bone, env, entity, dbFilter, clock, saves>>

\* skel.fromClient: bone.fromClient(valuesCache, name, data), with the
\* request data taken from requests
FromClientOf(requests) ==
    \E data \in requests :
        FromClientDone(data, fromClient(bone, valuesCache[Created], Created, data, clock))

FromClient == FromClientOf(Data)

\* the requests whose values are then saved and loaded again
FromClientSaved == FromClientOf(SavedData)

\* the state after bone.serialize(valuesCache, name, entity) ended as r
SerializeDone(r) ==
    /\ entity' = IF r.raised = "none" THEN [entity EXCEPT ![Created] = r.stored]
                 ELSE entity
    /\ last' = [op |-> "serialize", data |-> <<>>,
                hadValue |-> valuesCache[Created] # None, ret |-> "none",
                raised |-> r.raised]
    /\ saves' = IF bone.localize THEN saves + 1 ELSE saves
    /\ UNCHANGED <<instances, workers, bone, env, valuesCache, dbFilter, clock>>

\* bone.serialize(valuesCache, name, entity); the saves of a localized bone
\* are counted, each one may move the stored value
Serialize ==
    /\ saves < MaxSaves
    /\ SerializeDone(serialize(bone, valuesCache[Created], env))

\* the state after bone.unserialize(valuesCache, name, expando) ended as r
UnserializeDone(r) ==
    /\ valuesCache' = [valuesCache EXCEPT ![Created] = r.value]
    /\ env' = [env EXCEPT !.requestData = r.requestData]
    /\ last' = [op |-> "unserialize", data |-> <<>>,
                hadValue |-> valuesCache[Created] # None, ret |-> "none",
                raised |-> r.raised]
    /\ UNCHANGED <<instances, workers, bone, entity, dbFilter, clock, saves>>

\* bone.unserialize(valuesCache, name, expando)
Unserialize == UnserializeDone(unserialize(bone, entity[Created], env))

\* the state after bone.buildDBFilter(name, skel, dbFilter, rawFilter) ended as r
BuildDBFilterDone(rawFilter, r) ==
    /\ dbFilter' = r.dbFilter
    /\ last' = [op |-> "buildDBFilter", data |-> rawFilter,
                hadValue |-> valuesCache[Created] # None, ret |-> "none",
                raised |-> r.raised]
    /\ UNCHANGED <<instances, workers, bone, env, valuesCache, entity, clock, saves>>

\* bone.buildDBFilter(name, skel, dbFilter, rawFilter), while the query of a
\* list request is built: no entity has been fetched yet
BuildDBFilter ==
    \E rawFilter \in RawFilters :
        /\ entity[Created] = Absent
        /\ BuildDBFilterDone(rawFilter, buildDBFilter(bone, Created, dbFilter, rawFilter))

\* the entity as the datastore returns it: written by this bone, by an
\* earlier version of the application, or damaged
DatastoreRead ==
    \E stored \in StoredValues :
        /\ entity' = [entity EXCEPT ![Created] = stored]
        /\ last' = [NoCall EXCEPT !.op = "read"]
        /\ UNCHANGED <<instances, workers, bone, env, valuesCache, dbFilter, clock, saves>>

\* skel.fromClient on a bone with languages; lists are submitted to
\* multiple bones only
FromClientLanguages ==
    \E data \in LanguageData :
        /\ bone.multiple \/ \A k \in DOMAIN data : data[k].kind # "list"
        /\ FromClientDone(data, fromClientLanguages(bone, Created, data, clock))

\* the skeleton is rendered after its bone has read a value: last keeps the
\* request data and gains what was rendered
Render ==
    /\ last.op = "fromClient"
    /\ last.ret = "None"
    /\ last' = [op |-> "render", data |-> last.data, hadValue |-> TRUE,
                ret |-> "none",
                raised |-> renderSingleBoneValue(bone, valuesCache[Created]).raised,
                rendered |-> renderSingleBoneValue(bone, valuesCache[Created]).res]
    /\ UNCHANGED <<instances, workers, bone, env, valuesCache, entity, dbFilter, clock, saves>>

InitMagic == InitWith(MagicBones)

\* dateBone(...) while the skeletons are loaded, before any request: the
\* bone constructed takes the place of the one at hand
Construct ==
    \E c \in BOOLEAN, u \in BOOLEAN, d \in BOOLEAN, ti \in BOOLEAN, l \in BOOLEAN :
        /\ last.op \in {"none", "init"}
        /\ bone' = IF dateBone(c, u, d, ti, l).raised = "none"
                   THEN dateBone(c, u, d, ti, l).bone ELSE bone
        /\ last' = [op |-> "init", data |-> <<>>, hadValue |-> FALSE, ret |-> "none",
                    raised |-> dateBone(c, u, d, ti, l).raised,
                    flags |-> [date |-> d, time |-> ti, localize |-> l]]
        /\ UNCHANGED <<instances, workers, env, valuesCache, entity, dbFilter, clock, saves>>

\* the state after bone.performMagic(valuesCache, name, isAdd) ended as r
PerformMagicDone(isAdd, r) ==
    /\ valuesCache' = [valuesCache EXCEPT ![Created] = r.value]
    /\ env' = [env EXCEPT !.requestData = r.requestData]
    /\ last' = [op |-> "performMagic", data |-> <<>>,
                hadValue |-> valuesCache[Created] # None, ret |-> "none",
                raised |-> "none", isAdd |-> isAdd, before |-> valuesCache[Created]]
    /\ UNCHANGED <<instances, workers, bone, entity, dbFilter, clock, saves>>

\* bone.performMagic(valuesCache, name, isAdd) when the skeleton is written
PerformMagic ==
    \E isAdd \in BOOLEAN :
        PerformMagicDone(isAdd, performMagic(bone, valuesCache[Created], isAdd, clock, env))

\* bones are constructed, then entities are added and updated
NextMagic == Construct \/ FromClientSaved \/ PerformMagic

SpecMagic == InitMagic /\ [][NextMagic]_vars

(***************************************************************************)
(* Router.__call__ (core/router.py, lines 24-44; App.__call__,             *)
(* core/app.py, lines 76-101, sets and unsets the same variables): the     *)
(* context variables are set, the request is processed, the variables are  *)
(* unset.  workers[w] is the context of thread w: whether it is handling a *)
(* request, how many it has begun, the environment guessTimeZone sees,     *)
(* and the number of the request that cached the zone, 0 for none.         *)
(***************************************************************************)
\* a request that would find the request data of the one before
KeptRequestData(previous) == previous

\* line 33: utils.currentRequestData.set({})
NewRequestData(previous) == "absent"

\* lines 25-33: a request arrives at thread w
BeginRequest ==
    \E w \in Workers, country \in Countries :
        /\ ~workers[w].handling
        /\ workers[w].served < MaxRequests
        /\ workers' = [workers EXCEPT ![w] =
               [handling |-> TRUE, served |-> @.served + 1,
                cachedBy |-> IF NewRequestData(@.env.requestData) = "absent"
                             THEN 0 ELSE @.cachedBy,
                env |-> [hasRequest |-> TRUE, country |-> country, pytz |-> env.pytz,
                         requestData |-> NewRequestData(@.env.requestData)]]]
        /\ last' = [op |-> "begin", data |-> <<>>, hadValue |-> FALSE, ret |-> "none",
                    raised |-> "none", worker |-> w]
        /\ UNCHANGED <<instances, bone, env, valuesCache, entity, dbFilter, clock, saves>>

\* the state after guessTimeZone() ended as g on thread w
GuessTimeZoneDone(w, g) ==
    /\ workers' = [workers EXCEPT
                       ![w].env.requestData = g.requestData,
                       ![w].cachedBy = IF g.requestData # workers[w].env.requestData
                                       THEN workers[w].served ELSE @]
    /\ last' = [op |-> "guessTimeZone", data |-> <<>>, hadValue |-> FALSE,
                ret |-> g.zone, raised |-> "none", worker |-> w,
                before |-> workers[w].env]
    /\ UNCHANGED <<instances, bone, env, valuesCache, entity, dbFilter, clock, saves>>

\* line 36: a bone calls guessTimeZone() while the request is processed, or
\* a thread without a request does
GuessTimeZone ==
    \E w \in Workers :
        /\ workers[w].handling \/ ~workers[w].env.hasRequest
        /\ GuessTimeZoneDone(w, guessTimeZone(workers[w].env))

\* lines 36-44: processRequest returns and the variables are unset, or it
\* raises and lines 38-42 are not reached
EndRequest ==
    \E w \in Workers, raises \in BOOLEAN :
        /\ workers[w].handling
        /\ workers' = [workers EXCEPT
                           ![w].handling = FALSE,
                           ![w].env.hasRequest = IF raises THEN @ ELSE FALSE,
                           ![w].env.requestData = IF raises THEN @ ELSE "absent",
                           ![w].cachedBy = IF raises THEN @ ELSE 0]
        /\ last' = [op |-> "end", data |-> <<>>, hadValue |-> FALSE, ret |-> "none",
                    raised |-> IF raises THEN "Exception" ELSE "none", worker |-> w]
        /\ UNCHANGED <<instances, bone, env, valuesCache, entity, dbFilter, clock, saves>>

\* the requests of an instance
NextRequest == BeginRequest \/ GuessTimeZone \/ EndRequest

SpecRequest == Init /\ [][NextRequest]_vars

\* a request that reads client input, renders it or builds a query
Next == FromClient \/ Render \/ BuildDBFilter

Spec == Init /\ [][Next]_vars

\* a request that saves and loads the entity
NextStorage == FromClientSaved \/ Serialize \/ Unserialize \/ DatastoreRead

SpecStorage == Init /\ [][NextStorage]_vars

\* requests to a bone with languages
NextLanguages == FromClientLanguages

SpecLanguages == InitLanguages /\ [][NextLanguages]_vars

\* the calls that write the value cache: client input, magic, loading
NextFrame == FromClientSaved \/ PerformMagic \/ DatastoreRead \/ Unserialize

SpecFrame == InitMagic /\ [][NextFrame]_vars

(***************************************************************************)
(* The email bone (bones/emailBone.py), Python 3.  A character outside     *)
(* ASCII is written by its code point, "U+00E9".                           *)
(***************************************************************************)
\* line 30: string.ascii_letters + string.digits and the punctuation of
\* the line; the grave accent is written "U+0060"
ValidChars ==
    {"a", "b", "c", "d", "e", "f", "g", "h", "i", "j", "k", "l", "m", "n", "o",
     "p", "q", "r", "s", "t", "u", "v", "w", "x", "y", "z", "A", "B", "C", "D",
     "E", "F", "G", "H", "I", "J", "K", "L", "M", "N", "O", "P", "Q", "R", "S",
     "T", "U", "V", "W", "X", "Y", "Z"}
    \cup Digits
    \cup {"!", "#", "$", "%", "&", "'", "*", "+", "-", "/", "=", "?", "^", "_",
          "U+0060", "{", "|", "}", "~", "."}

\* the characters from U+0080 on
NonAscii == {"U+00E9"}

\* a check of the account that would let every character pass
AnyChar(char) == TRUE

\* line 34: char in validChars or (char >= "\u0080" and char <= "\U0010FFFF")
AccountCharOk(char) == char \in ValidChars \/ char \in NonAscii

\* encodings.idna.ToASCII(label) returns: an ASCII label when it has 1 to 63
\* characters; another one when nameprep and punycode accept it, which is
\* decided outside the model (encodable)
ToASCII(label, encodable) ==
    IF \A i \in 1..Len(label) : label[i] \notin NonAscii
    THEN 0 < Len(label) /\ Len(label) < 64
    ELSE encodable

\* lines 24-49: the checks that set isValid, and the result
EmailChecked(value, account, subDomain, tld, encodable) ==
    IF \/ \E i \in 1..(Len(value) - 1) : value[i] = "." /\ value[i + 1] = "."
       \/ \E i \in 1..Len(account) : ~AccountCharOk(account[i])
       \/ ~ToASCII(subDomain, encodable)
       \/ ~ToASCII(tld, encodable)
       \/ Contains(subDomain, " ")
       \/ Contains(tld, " ")
    THEN "Invalid email entered"
    ELSE "None"

\* the place of the last c of s, 0 when s has none: where rsplit(c, 1) splits
LastIndex(s, c) ==
    IF Contains(s, c)
    THEN CHOOSE j \in 1..Len(s) : s[j] = c /\ \A k \in (j + 1)..Len(s) : s[k] # c
    ELSE 0

\* lines 16-22: the unpacking of value.split("@") and of
\* domain.rsplit(".", 1), and the assertions on the parts
EmailOfParts(value, parts, encodable) ==
    IF \/ Len(parts) # 2
       \/ LastIndex(parts[2], ".") = 0
       \/ parts[1] = <<>>
       \/ LastIndex(parts[2], ".") = 1
       \/ LastIndex(parts[2], ".") = Len(parts[2])
       \/ parts[2][1] = "."
       \/ Len(parts[1]) > 64
    THEN "Invalid email entered"
    ELSE EmailChecked(value, parts[1],
                      SubSeq(parts[2], 1, LastIndex(parts[2], ".") - 1),
                      SubSeq(parts[2], LastIndex(parts[2], ".") + 1, Len(parts[2])),
                      encodable)

\* lines 10-49: what validateEmail(value) returns.  len() of a number
\* raises inside the try of lines 14-22.
validateEmail(value, encodable) ==
    IF ~Truthy(value) THEN "No value entered"
    ELSE IF value.kind # "str" \/ Len(value.s) >= 256 THEN "Invalid email entered"
    ELSE EmailOfParts(value.s, Split(value.s, "@"), encodable)

MaxEmailLen == 5

EmailAlphabet == {"a", "@", ".", " ", "U+00E9"}

\* c repeated n times
Repeated(c, n) == [i \in 1..n |-> c]

\* every string up to MaxEmailLen, strings at the limits of 64 and 256
\* characters, and values that are not strings
EmailValues ==
    {PyStr(s) : s \in UNION {[1..n -> EmailAlphabet] : n \in 0..MaxEmailLen}}
    \cup {PyStr(Repeated("a", n) \o <<"@", "a", ".", "a">>) : n \in {64, 65}}
    \cup {PyStr(<<"a", "@">> \o Repeated("a", n) \o <<".", "a">>) : n \in {63, 64}}
    \cup {PyStr(<<"a", "@", "a", ".">> \o Repeated("a", n)) : n \in {63, 64, 252}}
    \cup {None, PyInt(0), PyInt(5)}

\* lines 55-56: emailBone.isInvalid(value), called with the value the
\* client submitted in this request
ValidateEmail ==
    \E value \in EmailValues, encodable \in BOOLEAN :
        /\ last = NoCall
        /\ last' = [op |-> "validateEmail", data |-> value, hadValue |-> FALSE,
                    ret |-> validateEmail(value, encodable), raised |-> "none"]
        /\ UNCHANGED <<instances, workers, bone, env, valuesCache, entity, dbFilter, clock, saves>>

(***************************************************************************)
(* The router (core/router.py) and the decorators it reads                 *)
(* (src/viur/core/decorators.py).  A module is its attributes: for each    *)
(* name the decorator its function carries.                                *)
(***************************************************************************)
\* decorators.py, lines 17-48: the attribute exposed of a function after
\* its decorator ran: True after exposed, False after internal_exposed, not
\* there on an undecorated function
ExposedAttr(decorator) ==
    CASE decorator = "exposed" -> "True"
      [] decorator = "internal_exposed" -> "False"
      [] OTHER -> "absent"

\* lines 52-56: the names of the functions mapModule selects
moduleFunctions(moduleObj) ==
    {key \in DOMAIN moduleObj :
        /\ key[1] # "_"
        /\ key = <<"canAccess">> \/ ExposedAttr(moduleObj[key]) = "True"}

\* lines 75-94: the paths mapModule adds to targetResolverRender for a
\* module without translated names, and the NameError of line 94 that ends
\* it when the module has sub-modules: mapModule is no global name
mapModule(moduleObj, moduleName, hasSubmodules) ==
    [resolver |-> {(IF moduleName = <<"index">> THEN <<>> ELSE <<moduleName>>) \o <<fname>> :
                      fname \in moduleFunctions(moduleObj)},
     raised |-> IF hasSubmodules THEN "NameError" ELSE "none"]

FunctionNames == {<<"view">>, <<"edit">>, <<"canAccess">>, <<"_", "hidden">>}

Decorators == {"none", "exposed", "internal_exposed"}

\* buildApp maps a module
MapModule ==
    \E moduleObj \in [FunctionNames -> Decorators],
       moduleName \in {<<"index">>, <<"user">>}, hasSubmodules \in BOOLEAN :
        /\ last = NoCall
        /\ last' = [op |-> "mapModule", data |-> moduleObj, hadValue |-> FALSE,
                    ret |-> "none",
                    raised |-> mapModule(moduleObj, moduleName, hasSubmodules).raised,
                    resolver |-> mapModule(moduleObj, moduleName, hasSubmodules).resolver]
        /\ UNCHANGED <<instances, workers, bone, env, valuesCache, entity, dbFilter, clock, saves>>

(***************************************************************************)
(* Translations (src/viur/core/i18n.py).  A text is a Python string or     *)
(* None; a dict of translations is a function from language codes and      *)
(* "_default_text_" to texts.                                              *)
(***************************************************************************)
\* dict.get(k)
Get(d, k) == IF k \in DOMAIN d THEN d[k] ELSE None

\* conf.i18n.language_alias_map: Austrian German is served the German texts
LanguageAliasMap == [at |-> "de"]

\* lines 268-276: merge_alias(translations): an alias without a text of its
\* own, or with a blank one, gets the text of its main language or the
\* default text
merge_alias(translations) ==
    [k \in DOMAIN translations \cup DOMAIN LanguageAliasMap |->
        IF k \in DOMAIN LanguageAliasMap
           /\ (~Truthy(Get(translations, k)) \/ Strip(Get(translations, k).s) = <<>>)
        THEN IF Truthy(Get(translations, LanguageAliasMap[k]))
             THEN Get(translations, LanguageAliasMap[k])
             ELSE Get(translations, "_default_text_")
        ELSE translations[k]]

\* lines 159-177: translate(key, defaultText, force_lang=force_lang)
translate(key, defaultText, force_lang) ==
    [key |-> Lower(key),
     defaultText |-> IF Truthy(defaultText) THEN defaultText ELSE PyStr(key),
     translationCache |-> None,
     force_lang |-> force_lang]

\* lines 229-232: the text chosen from the cache for lang
ChosenText(self, cache, lang) ==
    IF Truthy(Get(cache, lang)) THEN Get(cache, lang)
    ELSE IF Truthy(Get(cache, "_default_text_")) THEN Get(cache, "_default_text_")
    ELSE self.defaultText

\* lines 182-232: str(self) in a request whose language is lang; line 219
\* reads current.language.get(), self.force_lang is not read
translateStr(self, systemTranslations, lang) ==
    [translationCache |-> merge_alias(IF self.key \in DOMAIN systemTranslations
                                      THEN systemTranslations[self.key]
                                      ELSE <<>>),
     ret |-> ChosenText(self,
                        merge_alias(IF self.key \in DOMAIN systemTranslations
                                    THEN systemTranslations[self.key]
                                    ELSE <<>>),
                        lang)]

TranslationKeys == {<<"n", "o">>, <<"N", "o">>, <<"o", "n">>}

Texts(word) == {None, PyStr(<<>>), PyStr(<<" ">>), PyStr(word)}

\* what the datastore holds for the key "no"
StoredTranslations ==
    {[en |-> e, de |-> d, at |-> a, _default_text_ |-> dt] :
        e \in {None, PyStr(<<"N", "o">>)}, d \in Texts(<<"N", "e", "i", "n">>),
        a \in Texts(<<"N", "a">>), dt \in {None, PyStr(<<"n", "o", "!">>)}}

\* a translate object is created and converted to a string in a request
Translate ==
    \E key \in TranslationKeys, defaultText \in {None, PyStr(<<"N", "o", "?">>)},
       force_lang \in {None} \cup {PyStr(<<l>>) : l \in {"en", "de"}},
       translations \in StoredTranslations, lang \in {"en", "de", "at"} :
        /\ last = NoCall
        /\ last' = [op |-> "translate",
                    data |-> [self |-> translate(key, defaultText, force_lang),
                              systemTranslations |-> (<<"n", "o">> :> translations),
                              lang |-> lang],
                    hadValue |-> FALSE, ret |-> "none", raised |-> "none",
                    text |-> translateStr(translate(key, defaultText, force_lang),
                                          (<<"n", "o">> :> translations), lang).ret]
        /\ UNCHANGED <<instances, workers, bone, env, valuesCache, entity, dbFilter, clock, saves>>

(***************************************************************************)
(* JSON (src/viur/core/utils/json.py).  A JSON document is the tree        *)
(* json.dumps writes and json.loads reads: strings, numbers, lists (which  *)
(* tuples become) and dicts, a function from keys to trees.  bytes are     *)
(* sequences of 0..255, a timedelta is its number of microseconds.         *)
(***************************************************************************)
Bytes(v) == [kind |-> "bytes", v |-> v]

TimeDelta(us) == [kind |-> "timedelta", us |-> us]

PySet(items) == [kind |-> "set", items |-> items]

Tuple(items) == [kind |-> "tuple", items |-> items]

\* the alphabet of base64
B64 ==
    <<"A", "B", "C", "D", "E", "F", "G", "H", "I", "J", "K", "L", "M", "N", "O", "P",
      "Q", "R", "S", "T", "U", "V", "W", "X", "Y", "Z", "a", "b", "c", "d", "e", "f",
      "g", "h", "i", "j", "k", "l", "m", "n", "o", "p", "q", "r", "s", "t", "u", "v",
      "w", "x", "y", "z", "0", "1", "2", "3", "4", "5", "6", "7", "8", "9", "+", "/">>

\* base64.b64encode(b).decode("ASCII"): four characters for three bytes,
\* the last group padded with "="
RECURSIVE b64encode(_)
b64encode(b) ==
    IF Len(b) = 0 THEN <<>>
    ELSE IF Len(b) = 1
    THEN <<B64[(b[1] \div 4) + 1], B64[((b[1] % 4) * 16) + 1], "=", "=">>
    ELSE IF Len(b) = 2
    THEN <<B64[(b[1] \div 4) + 1], B64[((b[1] % 4) * 16) + (b[2] \div 16) + 1],
           B64[((b[2] % 16) * 4) + 1], "=">>
    ELSE <<B64[(b[1] \div 4) + 1], B64[((b[1] % 4) * 16) + (b[2] \div 16) + 1],
           B64[((b[2] % 16) * 4) + (b[3] \div 64) + 1], B64[(b[3] % 64) + 1]>>
         \o b64encode(SubSeq(b, 4, Len(b)))

\* the six bits of a character of base64
B64Value(c) == (CHOOSE i \in 1..64 : B64[i] = c) - 1

\* base64.b64decode(s) of a padded string
RECURSIVE b64decode(_)
b64decode(s) ==
    IF Len(s) = 0 THEN <<>>
    ELSE IF s[3] = "="
    THEN <<(B64Value(s[1]) * 4) + (B64Value(s[2]) \div 16)>>
    ELSE IF s[4] = "="
    THEN <<(B64Value(s[1]) * 4) + (B64Value(s[2]) \div 16),
           ((B64Value(s[2]) % 16) * 16) + (B64Value(s[3]) \div 4)>>
    ELSE <<(B64Value(s[1]) * 4) + (B64Value(s[2]) \div 16),
           ((B64Value(s[2]) % 16) * 16) + (B64Value(s[3]) \div 4),
           ((B64Value(s[3]) % 4) * 64) + B64Value(s[4])>>
         \o b64decode(SubSeq(s, 5, Len(s)))

\* list(obj): the members of a set in some order
ListOfSet(items) ==
    CHOOSE l \in [1..Cardinality(items) -> items] : \A x \in items : \E i \in DOMAIN l : l[i] = x

\* lines 49-64 and json.dumps: a member of a set as it is written, a tuple
\* as a list
rewrite_entity(o) == IF o.kind = "tuple" THEN PyList(o.items) ELSE o

\* lines 19-42 and 67-75: dumps(obj) of a bytes, timedelta or set value
dumps(obj) ==
    CASE obj.kind = "bytes" -> PyDict(".__bytes__" :> PyStr(b64encode(obj.v)))
      [] obj.kind = "timedelta" -> PyDict(".__timedelta__" :> PyFloat(obj.us * 10))
      [] obj.kind = "set" ->
            PyDict(".__set__" :>
                PyList([i \in 1..Cardinality(obj.items) |->
                            rewrite_entity(ListOfSet(obj.items)[i])]))

\* lines 84-92: buf := obj.get(key), tested for truth
HasTrueValue(obj, key) == key \in DOMAIN obj.items /\ Truthy(obj.items[key])

\* lines 78-101: _decode_object_hook(obj) for a dict of one key: the value
\* it returns, or the TypeError of set(items) for a member that is a list
DecodeObjectHook(obj) ==
    IF HasTrueValue(obj, ".__bytes__")
    THEN [value |-> Bytes(b64decode(obj.items[".__bytes__"].s)), raised |-> "none"]
    ELSE IF HasTrueValue(obj, ".__timedelta__")
    THEN [value |-> TimeDelta(Trunc(obj.items[".__timedelta__"].tenths)), raised |-> "none"]
    ELSE IF HasTrueValue(obj, ".__set__")
    THEN IF \E i \in DOMAIN obj.items[".__set__"].items :
                obj.items[".__set__"].items[i].kind = "list"
         THEN [value |-> None, raised |-> "TypeError"]
         ELSE [value |-> PySet({obj.items[".__set__"].items[i] :
                                   i \in DOMAIN obj.items[".__set__"].items}),
               raised |-> "none"]
    ELSE [value |-> obj, raised |-> "none"]

\* lines 104-108: loads(s) of a document that is one dict
loads(s) == DecodeObjectHook(s)

MaxBytes == 3

ByteValues == {0, 1, 65, 255}

\* the values written and read
JsonValues ==
    {Bytes(b) : b \in UNION {[1..n -> ByteValues] : n \in 0..MaxBytes}}
    \cup {TimeDelta(us) : us \in (0 - 3)..20}
    \cup {PySet(s) : s \in SUBSET {PyInt(0), PyInt(7), PyStr(<<"a">>), Tuple(<<PyInt(1)>>)}}

\* loads(dumps(obj))
DumpsLoads ==
    \E obj \in JsonValues :
        /\ last = NoCall
        /\ last' = [op |-> "loads", data |-> obj, hadValue |-> FALSE, ret |-> "none",
                    raised |-> loads(dumps(obj)).raised,
                    value |-> loads(dumps(obj)).value]
        /\ UNCHANGED <<instances, workers, bone, env, valuesCache, entity, dbFilter, clock, saves>>

\* one call of a helper, on its own: a date and time bone at rest
InitHelpers == InitWith({b \in Bones : b.date /\ b.time /\ ~b.localize})

\* a value is submitted to an email bone
SpecEmail == InitHelpers /\ [][ValidateEmail]_vars

\* a module is mapped
SpecRouter == InitHelpers /\ [][MapModule]_vars

\* a text is translated
SpecTranslate == InitHelpers /\ [][Translate]_vars

\* a value is written as JSON and read again
SpecJson == InitHelpers /\ [][DumpsLoads]_vars

(***************************************************************************)
(* The instances of the application and the datastore they share:          *)
(* App.init_hmac_key (core/app.py) and add_missing_translation             *)
(* (src/viur/core/i18n.py).  Each call of the datastore is one step, the   *)
(* steps of the instances interleave.  instances.datastore holds the       *)
(* hmacKey of the entity viur-conf and the number of translation entities  *)
(* with the tr_key at hand; instances.of[i] is instance i: where it is in  *)
(* init_hmac_key, its conf["viur.file.hmacKey"], where its deferred task   *)
(* is, whether its systemTranslations hold the key, whether it wrote.      *)
(***************************************************************************)
\* the call of an instance
CallOf(op, i) ==
    [op |-> op, data |-> <<>>, hadValue |-> FALSE, ret |-> "none", raised |-> "none",
     worker |-> i]

\* core/app.py, lines 62-65 and 74: conf holds no key, obj := db.Get(key);
\* a stored hmacKey goes into conf
InitHmacKeyGet ==
    \E i \in Instances :
        /\ instances.of[i].hmac = "start"
        /\ instances' =
               IF instances.datastore.hmacKey = "absent"
               THEN [instances EXCEPT !.of[i].hmac = "got"]
               ELSE [instances EXCEPT !.of[i].hmac = "done",
                                      !.of[i].conf = instances.datastore.hmacKey]
        /\ last' = CallOf("Get", i)
        /\ UNCHANGED <<workers, bone, env, valuesCache, entity, dbFilter, clock, saves>>

\* core/app.py, lines 69-74: obj read no hmacKey: a new one is generated,
\* put and taken into conf
InitHmacKeyPut ==
    \E i \in Instances, hmacKey \in RandomStrings :
        /\ instances.of[i].hmac = "got"
        /\ instances' = [instances EXCEPT !.datastore.hmacKey = hmacKey,
                                          !.of[i].hmac = "done",
                                          !.of[i].conf = hmacKey]
        /\ last' = [CallOf("Put", i) EXCEPT !.hadValue = instances.datastore.hmacKey # "absent"]
        /\ UNCHANGED <<workers, bone, env, valuesCache, entity, dbFilter, clock, saves>>

\* i18n.py, lines 188-216: str(translate(key)) on an instance whose
\* systemTranslations lack the key: add_missing_translation is deferred
StrOfMissing ==
    \E i \in Instances :
        /\ instances.of[i].hmac = "done"
        /\ ~instances.of[i].systemTranslations
        /\ instances.of[i].task = "none"
        /\ instances' = [instances EXCEPT !.of[i].task = "deferred"]
        /\ last' = CallOf("str", i)
        /\ UNCHANGED <<workers, bone, env, valuesCache, entity, dbFilter, clock, saves>>

\* i18n.py, lines 419-424: the deferred task asks the datastore for an
\* entity with the tr_key and returns when there is one
AddMissingTranslationQuery ==
    \E i \in Instances :
        /\ instances.of[i].task = "deferred"
        /\ instances' = [instances EXCEPT !.of[i].task =
               IF instances.datastore.translations > 0 THEN "none" ELSE "queried"]
        /\ last' = CallOf("Query", i)
        /\ UNCHANGED <<workers, bone, env, valuesCache, entity, dbFilter, clock, saves>>

\* i18n.py, lines 426-440: it found none: skel.toDB() writes a new entity,
\* then systemTranslations[key] is set
AddMissingTranslationToDB ==
    \E i \in Instances :
        /\ instances.of[i].task = "queried"
        /\ instances' = [instances EXCEPT !.datastore.translations = @ + 1,
                                          !.of[i].task = "none",
                                          !.of[i].systemTranslations = TRUE,
                                          !.of[i].wrote = TRUE]
        /\ last' = CallOf("toDB", i)
        /\ UNCHANGED <<workers, bone, env, valuesCache, entity, dbFilter, clock, saves>>

\* the instances start and translate a text that has no entity yet
NextInstances ==
    \/ InitHmacKeyGet
    \/ InitHmacKeyPut
    \/ StrOfMissing
    \/ AddMissingTranslationQuery
    \/ AddMissingTranslationToDB

SpecInstances == InitHelpers /\ [][NextInstances]_vars

(***************************************************************************)
(* Properties of fromClient.  last is the call that ended in this state;   *)
(* Submitted is the value the call read for the bone.                      *)
(***************************************************************************)
AfterFromClient == last.op = "fromClient"

Submitted == LookUp(last.data, Created)

\* what fromClient returns to report an error
ErrorMessages == {InvalidValue, "No value entered"}

\* C1: a fromClient that returns has either returned an error message and
\* left valuesCache[name] None, or returned None and left the parsed value
\* there; it never reports no error with valuesCache[name] None.
C1_ErrorOrValue ==
    (AfterFromClient /\ last.raised = "none") =>
        \/ last.ret \in ErrorMessages /\ valuesCache[Created] = None
        \/ last.ret = "None" /\ valuesCache[Created] # None

\* C2: fromClient never raises, whatever the client submitted.
C2_NeverRaises == AfterFromClient => last.raised = "none"

C4_LanguageKeys ==
    (AfterFromClient /\ bone.languages # <<>> /\ last.ret = "None") =>
        /\ valuesCache[Created].kind = "dict"
        /\ DOMAIN valuesCache[Created].items = LanguageSet(bone)
        /\ \A l \in LanguageSet(bone) :
               IF LangKey(Created, l) \in DOMAIN last.data
               THEN valuesCache[Created].items[l] =
                        ParseEntry(bone, last.data[LangKey(Created, l)], clock).value
               ELSE valuesCache[Created].items[l] =
                        (IF bone.multiple THEN PyList(<<>>) ELSE None)

\* C4, its case: of the languages en and de only de was submitted
C4_OnlyDeSubmitted ==
    /\ AfterFromClient
    /\ bone.languages = <<"en", "de">>
    /\ DOMAIN last.data = {LangKey(Created, "de")}
    /\ last.ret = "None"
    /\ valuesCache[Created].kind = "dict"
    /\ valuesCache[Created].items["en"] = (IF bone.multiple THEN PyList(<<>>) ELSE None)
    /\ valuesCache[Created].items["de"] # None

\* the fields of a stored datetime that name its second
SecondOf(d) == <<d.year, d.month, d.day, d.hour, d.minute, d.second>>

\* C5: for a localized bone, loading a stored UTC datetime and saving it
\* again leaves the stored instant as it was.
C5_LoadSaveKeepsInstant ==
    [][(/\ last.op = "unserialize"
        /\ last.raised = "none"
        /\ bone.localize
        /\ entity[Created] # Absent
        /\ entity[Created].kind = "datetime"
        /\ valuesCache[Created] # None
        /\ last'.op = "serialize"
        /\ last'.raised = "none")
       => (/\ entity'[Created].kind = "datetime"
           /\ SecondOf(entity'[Created]) = SecondOf(entity[Created]))]_vars

\* v without its microseconds, as storing truncates a datetime to the second
TruncatedToSecond(v) ==
    IF v.kind = "datetime" THEN [v EXCEPT !.microsecond = 0] ELSE v

\* C6: for a bone that does not localize, saving a value fromClient stored
\* and loading it again yields the same value, truncated to the second.
C6_SaveLoadKeepsValue ==
    [][(/\ last.op = "serialize"
        /\ last.raised = "none"
        /\ ~bone.localize
        /\ valuesCache[Created].kind \in {"datetime", "time"}
        /\ last'.op = "unserialize")
       => (/\ last'.raised = "none"
           /\ valuesCache'[Created] = TruncatedToSecond(valuesCache[Created]))]_vars

\* C7: buildDBFilter never raises, whatever the raw filter holds.
C7_FilterNeverRaises == last.op = "buildDBFilter" => last.raised = "none"

\* C8: unserialize never raises; a stored value that is no date, no time
\* and no number in range leaves valuesCache[name] None.
C8_UnserializeNeverRaises ==
    last.op = "unserialize" =>
        /\ last.raised = "none"
        /\ (entity[Created].kind \notin {"int", "float", "datetime"}
                => valuesCache[Created] = None)

\* the numbers submitted as timestamp strings
Timestamps ==
    {0, 5, 55, -5, 90, 1600000000, 2147483646, 2147483647, -1073741824, -1073741825}

\* C9: a numeric string whose integer t is in [-1073741824, 2147483646] is
\* stored as the local datetime of the Unix timestamp t; one outside of it
\* is answered with "Invalid value entered" and nothing is stored.
C9_TimestampRange ==
    \A t \in Timestamps :
        (AfterFromClient /\ Submitted = PyStr(IntStr(t))) =>
            IF t >= -1073741824 /\ t <= 2147483646
            THEN /\ last.ret = "None"
                 /\ last.raised = "none"
                 /\ valuesCache[Created] = FromTimestamp("ExtendedDateTime", t, 0)
            ELSE /\ last.ret = InvalidValue
                 /\ valuesCache[Created] = None

\* C9, its case: the last second of the range is stored
C9_LastSecondStored ==
    /\ AfterFromClient
    /\ Submitted = PyStr(<<"2", "1", "4", "7", "4", "8", "3", "6", "4", "6">>)
    /\ last.ret = "None"
    /\ valuesCache[Created]
           = DateTime("ExtendedDateTime", 2038, 1, 19, 3, 14, 6, 0, "naive")

\* C10: a time-only bone reads a string of digits as a number of seconds
\* and stores a time with that second field.
C10_DigitsAreSeconds ==
    (/\ AfterFromClient
     /\ ~bone.date
     /\ bone.time
     /\ Submitted.kind = "str"
     /\ IsDigit(Submitted.s)) =>
        /\ last.ret = "None"
        /\ valuesCache[Created].kind = "time"
        /\ valuesCache[Created].second = DigitsValue(Submitted.s)

\* the string as str.isdigit sees a bare integer, line 121
BareInteger(value) == IsDigit(ReplaceFirst(Str(value), "-"))

TimeOnly == ~bone.date /\ bone.time

\* C11: on a time-only bone every input that is no bare integer and is not
\* stored as a time of day is answered with "Invalid value entered".
C11_MalformedTimeIsInvalid ==
    (/\ AfterFromClient
     /\ TimeOnly
     /\ ~BareInteger(Submitted)
     /\ ~(last.ret = "None" /\ valuesCache[Created].kind = "time")) =>
        last.ret = InvalidValue

\* what follows "now" in the submitted string
Offset == SubSeq(Submitted.s, 4, Len(Submitted.s))

\* a sign and digits
SignedInteger(s) == Len(s) > 1 /\ s[1] \in {"+", "-"} /\ IsDigit(Tail(s))

SignedValue(s) == IF s[1] = "-" THEN 0 - DigitsValue(Tail(s)) ELSE DigitsValue(Tail(s))

DateString ==
    /\ AfterFromClient
    /\ ~TimeOnly
    /\ Submitted.kind = "str"
    /\ ~LooksNumeric(Submitted)
    /\ ~StartsWith(Lower(Submitted.s), <<"n", "o", "w">>)

\* the one format the separators of s select
SelectedFormat(s) ==
    IF \E i \in 1..Len(s) : s[i] = "-" THEN <<"Y", "-", "m", "-", "d">>
    ELSE IF \E i \in 1..Len(s) : s[i] = "/" THEN <<"m", "/", "d", "/", "Y">>
    ELSE <<"d", ".", "m", ".", "Y">>

\* s read in the selected format: with seconds, else with minutes, if a
\* blank is in it, as a date alone if not
SelectedParse(s, fmt) ==
    IF \E i \in 1..Len(s) : s[i] = " "
    THEN IF Strptime("ExtendedDateTime", s, fmt \o <<" ", "H", ":", "M", ":", "S">>).ok
         THEN Strptime("ExtendedDateTime", s, fmt \o <<" ", "H", ":", "M", ":", "S">>)
         ELSE Strptime("ExtendedDateTime", s, fmt \o <<" ", "H", ":", "M">>)
    ELSE Strptime("ExtendedDateTime", s, fmt)

\* C13: a date string is read in the one format its separators select, '-'
\* before '/' before '.', with seconds first and minutes second; what that
\* format does not match is answered with "Invalid value entered".
C13_FormatBySeparator ==
    DateString =>
        IF SelectedParse(Submitted.s, SelectedFormat(Submitted.s)).ok
        THEN /\ last.ret = "None"
             /\ valuesCache[Created]
                    = SelectedParse(Submitted.s, SelectedFormat(Submitted.s)).v
        ELSE /\ last.ret = InvalidValue
             /\ valuesCache[Created] = None

\* C13, its case: an ISO date with minutes, read after the seconds failed
C13_IsoWithMinutes ==
    /\ DateString
    /\ Submitted = PyStr(<<"2", "0", "2", "0", "-", "0", "2", "-", "2", "9", " ",
                           "1", "4", ":", "3", "0">>)
    /\ last.ret = "None"
    /\ valuesCache[Created]
           = DateTime("ExtendedDateTime", 2020, 2, 29, 14, 30, 0, 0, "naive")

\* the request data of the call whose value was rendered
Rendered == last.op = "render" /\ LookUp(last.data, Created).kind = "str"

RenderedFrom == LookUp(last.data, Created).s

\* a date and a time with seconds in one of the three formats
WithSeconds(s) ==
    /\ Count(s, " ") = 1
    /\ Count(s, ":") = 2
    /\ ~StartsWith(Lower(s), <<"n", "o", "w">>)

\* DD.MM.YYYY HH:MM:SS, every field with all its digits
PaddedEuropean(s) ==
    /\ Len(s) = 19
    /\ \A i \in 1..19 :
           IF i \in {3, 6} THEN s[i] = "."
           ELSE IF i = 11 THEN s[i] = " "
           ELSE IF i \in {14, 17} THEN s[i] = ":"
           ELSE s[i] \in Digits

\* C14 as stated: what is rendered for an accepted date and time with
\* seconds is the submitted string.
C14_RenderedAsSubmitted ==
    (Rendered /\ ~bone.localize /\ WithSeconds(RenderedFrom)) =>
        last.rendered = PyStr(RenderedFrom)

\* C14: on a bone with date and time that does not localize, an accepted
\* string DD.MM.YYYY HH:MM:SS with all its digits and a year from 1900 on is
\* rendered as it was submitted.
C14_PaddedEuropeanRendered ==
    (/\ Rendered
     /\ ~bone.localize
     /\ bone.date
     /\ bone.time
     /\ PaddedEuropean(RenderedFrom)
     /\ valuesCache[Created].year >= 1900) =>
        last.rendered = PyStr(RenderedFrom)

\* C14, its case: 29.02.2020 14:30:15 comes back
C14_LeapDayRendered ==
    /\ Rendered
    /\ bone.date
    /\ bone.time
    /\ RenderedFrom = <<"2", "9", ".", "0", "2", ".", "2", "0", "2", "0", " ",
                        "1", "4", ":", "3", "0", ":", "1", "5">>
    /\ last.rendered = PyStr(RenderedFrom)

\* C15: a time-only bone reads a stored number of minutes m, 0 <= m < 1440,
\* midnight included, as the time m div 60 : m mod 60.
C15_MinuteOfDay ==
    (/\ last.op = "unserialize"
     /\ TimeOnly
     /\ entity[Created].kind = "int"
     /\ entity[Created].v >= 0
     /\ entity[Created].v < 1440) =>
        /\ last.raised = "none"
        /\ valuesCache[Created]
               = Time(entity[Created].v \div 60, entity[Created].v % 60, 0)

\* the instant of a datetime: its fields as UTC, and its microsecond
InstantOf(v) ==
    <<SecondOf(AddSeconds(v, 0 - UtcOffset(v.tzinfo))), v.microsecond>>

\* C16: performMagic overwrites valuesCache[name] with the current instant
\* exactly when (creationMagic and isAdd) or updateMagic; in every other
\* case valuesCache[name] is what it was.
C16_MagicWhenFlagged ==
    last.op = "performMagic" =>
        IF (bone.creationMagic /\ last.isAdd) \/ bone.updateMagic
        THEN /\ valuesCache[Created].kind = "datetime"
             /\ InstantOf(valuesCache[Created]) = InstantOf(clock)
        ELSE valuesCache[Created] = last.before

\* C16, its case: an update leaves the creation time of a creationMagic bone
C16_UpdateKeepsCreation ==
    /\ last.op = "performMagic"
    /\ bone.creationMagic
    /\ ~bone.updateMagic
    /\ ~last.isAdd
    /\ last.before # None
    /\ last.before # clock
    /\ valuesCache[Created] = last.before

\* C20: the constructor raises exactly when neither date nor time is set, or
\* localize is set without both of them.
C20_ConstructorChecks ==
    last.op = "init" =>
        ((last.raised # "none") <=>
            \/ ~last.flags.date /\ ~last.flags.time
            \/ last.flags.localize /\ ~(last.flags.date /\ last.flags.time))

\* C20, its case: localize on a date-only bone is refused
C20_LocalizeNeedsBoth ==
    /\ last.op = "init"
    /\ last.flags = [date |-> TRUE, time |-> FALSE, localize |-> TRUE]
    /\ last.raised = "ValueError"

\* the zone the rules of guessTimeZone give in the environment e
ExpectedZone(e) ==
    IF ~e.hasRequest THEN "UTC"
    ELSE IF e.requestData # "absent" THEN e.requestData
    ELSE IF ~e.pytz \/ e.country = "absent" THEN "UTC"
    ELSE IF e.country = "DE" THEN "Europe/Berlin"
    ELSE IF e.country \in {"US", "us", "Us", "uS"} THEN "EST"
    ELSE "UTC"

\* C17: guessTimeZone returns the cached zone if there is one, else the
\* zone of a country with one zone, the fallback zone for "us" in any
\* case, and "UTC" for a country with several zones, an unknown country, no
\* header, no request or no zone database.
C17_ZoneRules ==
    last.op = "guessTimeZone" => last.ret = ExpectedZone(last.before)

\* C17, its case: the header "US" in capitals gives the fallback zone
C17_UsFallback ==
    /\ last.op = "guessTimeZone"
    /\ last.before.country = "US"
    /\ last.before.requestData = "absent"
    /\ last.ret = "EST"

\* C18: once guessTimeZone has returned in a request, on any path, the
\* request data hold the zone it returned.
C18_ReturnedZoneCached ==
    (last.op = "guessTimeZone" /\ last.before.hasRequest) =>
        workers[last.worker].env.requestData = last.ret

\* C19: a request begins with empty request data, and a zone guessTimeZone
\* takes from the request data was cached by the request being handled.
C19_NoZoneOfAnotherRequest ==
    /\ last.op = "begin" => workers[last.worker].env.requestData = "absent"
    /\ (last.op = "guessTimeZone" /\ last.before.requestData # "absent") =>
           workers[last.worker].cachedBy = workers[last.worker].served

\* C19, its case: the second request of a thread, after a first one that
\* cached a zone and ended with an exception, reads the zone it cached itself
C19_SecondRequestOwnZone ==
    /\ last.op = "guessTimeZone"
    /\ last.before.requestData # "absent"
    /\ workers[last.worker].served = 2
    /\ workers[last.worker].cachedBy = 2
    /\ \E w \in Workers : w # last.worker /\ workers[w].env.requestData \notin {"absent", last.ret}

\* C21: whatever dateBone.fromClient returns to report a failure is one of
\* the two fixed strings "Invalid value entered" and "No value entered".
C21_FixedErrorStrings ==
    (AfterFromClient /\ last.raised = "none" /\ last.ret # "None") =>
        last.ret \in ErrorMessages

\* C26: when Router.__call__ has finished a request, normally or by an
\* exception of processRequest, the context of its thread holds no request
\* and no request data.
C26_ContextReset ==
    last.op = "end" =>
        /\ ~workers[last.worker].env.hasRequest
        /\ workers[last.worker].env.requestData = "absent"

\* C27: fromClient, performMagic and unserialize for the field created leave
\* the entry of every other field of the value cache as it was.
C27_OnlyOwnEntry ==
    [][\A n \in BoneNames \ {Created} : valuesCache'[n] = valuesCache[n]]_vars

\* C27, its case: fromClient has failed and cleared the value of created,
\* the value of its sibling is still there
C27_SiblingKept ==
    /\ AfterFromClient
    /\ last.ret = InvalidValue
    /\ last.hadValue
    /\ valuesCache[Created] = None
    /\ valuesCache[CreatedBy] # None

\* C28: buildDBFilter for the field created hands to fromClient only keys
\* addressed to created: created itself or created with an operator, never
\* the key of the field createdby.
C28_OnlyOwnKeys ==
    last.op = "buildDBFilter" =>
        FilterKeys(Created, last.data) \subseteq {Created, CreatedGt}

\* what validateEmail was given, as a string
EmailString == last.data.s

EmailAccount == Split(EmailString, "@")[1]

EmailDomain == Split(EmailString, "@")[2]

\* C25: validateEmail does not raise; it returns None only for a string
\* shorter than 256 characters with exactly one "@", an account of 1 to 64
\* allowed or non-ASCII characters, a domain whose part before its last "."
\* is not empty and does not start with ".", whose part after it is not
\* empty and has no blank, and no ".." anywhere; an empty value yields "No
\* value entered", every other rejected value an error message.
C25_AcceptedIsValid ==
    last.op = "validateEmail" =>
        /\ last.raised = "none"
        /\ last.ret \in {"None", "No value entered", "Invalid email entered"}
        /\ last.data \in {None, PyStr(<<>>)} => last.ret = "No value entered"
        /\ last.ret = "None" =>
               /\ last.data.kind = "str"
               /\ Len(EmailString) < 256
               /\ Count(EmailString, "@") = 1
               /\ Len(EmailAccount) \in 1..64
               /\ \A i \in 1..Len(EmailAccount) :
                      EmailAccount[i] \in ValidChars \cup NonAscii
               /\ \E i \in 2..(Len(EmailDomain) - 1) :
                      /\ EmailDomain[i] = "."
                      /\ \A k \in (i + 1)..Len(EmailDomain) :
                             EmailDomain[k] \notin {".", " "}
               /\ EmailDomain[1] # "."
               /\ ~\E i \in 1..(Len(EmailString) - 1) :
                      EmailString[i] = "." /\ EmailString[i + 1] = "."

\* C25, its case: an address with an account of 64 characters is accepted
C25_LongestAccountAccepted ==
    /\ last.op = "validateEmail"
    /\ last.ret = "None"
    /\ last.data.kind = "str"
    /\ Len(EmailAccount) = 64

\* C22: every function mapModule has placed in the resolver tree has the
\* attribute exposed set to True, whatever its name.
C22_OnlyExposedMapped ==
    last.op = "mapModule" =>
        \A path \in last.resolver :
            ExposedAttr(last.data[path[Len(path)]]) = "True"

\* C23: the string of a translate object created with force_lang is the
\* text a request in the language force_lang gets, whatever the language
\* of the request at hand.
C23_ForcedLanguage ==
    (last.op = "translate" /\ last.data.self.force_lang # None) =>
        last.text = translateStr(last.data.self, last.data.systemTranslations,
                                 last.data.self.force_lang.s[1]).ret

\* C24: loads(dumps(v)) returns v, with its type, for every bytes,
\* timedelta and set value v, the empty and zero ones included.
C24_LoadsInvertsDumps ==
    last.op = "loads" => (last.raised = "none" /\ last.value = last.data)

\* C29: however the instances interleave the query and the write of
\* add_missing_translation, at most one entity with the tr_key is written,
\* and an instance that wrote one has the key in its systemTranslations.
C29_OneEntityPerKey ==
    /\ instances.datastore.translations <= 1
    /\ \A i \in Instances : instances.of[i].wrote => instances.of[i].systemTranslations

\* C30: init_hmac_key puts no key where one is stored, and every instance
\* that has finished it holds in its conf the key the datastore holds.
C30_OneHmacKey ==
    /\ last.op = "Put" => ~last.hadValue
    /\ \A i \in Instances :
           instances.of[i].hmac = "done" => instances.of[i].conf = instances.datastore.hmacKey

====
